---- MODULE Spec2Model ----
(***************************************************************************)
(* Model of the educational-application directory: the filter state of     *)
(* App (src/App.tsx), the memoised filtered list, and the image fallback   *)
(* chain of AppCard / AppDetailModal.                                       *)
(*                                                                          *)
(* Text is a sequence of one-character strings, so that toLowerCase and    *)
(* includes are computed character by character.  A URL is a sequence of   *)
(* tokens (scheme, host, path), so that hostname extraction and the        *)
(* favicon template are computed and not assumed.                          *)
(***************************************************************************)
EXTENDS Integers, Sequences, FiniteSets, TLC

VARIABLES
    catalog,             \* APP_DATA, loaded once
    language,            \* App: language
    searchTerm,          \* App: searchTerm
    selectedCategories,  \* App: selectedCategories (array)
    selectedStages,      \* App: selectedStages (array)
    selectedRoles,       \* App: selectedRoles (array)
    selectedPrices,      \* App: selectedPrices (array)
    filteredApps,        \* App: value of the useMemo at the last render
    card,                \* one AppCard instance (or unmounted)
    modal,               \* the AppDetailModal instance (or unmounted)
    analysis,            \* AppDetailModal: analysis
    loading,             \* AppDetailModal: loading
    error,               \* AppDetailModal: error
    inflight,            \* review requests that have not settled yet
    crashed,             \* a render threw and React unmounted the tree
    lastOp,              \* name of the handler that ran last
    started,             \* review requests issued by the last handler
    lastExport,          \* what the last handler exported, if anything
    drawn                \* the texts the last handler passed to doc.text

vars == <<catalog, language, searchTerm, selectedCategories, selectedStages,
          selectedRoles, selectedPrices, filteredApps, card, modal,
          analysis, loading, error, inflight, crashed,
          lastOp, started, lastExport, drawn>>

reviewVars == <<analysis, loading, error, inflight, crashed>>

filterVars == <<catalog, language, searchTerm, selectedCategories,
                selectedStages, selectedRoles, selectedPrices, filteredApps>>

imageVars == <<card, modal>>

----------------------------------------------------------------------------
(* Bounds *)

\* largest number of values selected in one filter dimension
MaxSelected == 2

\* largest number of image error events counted for one component instance
MaxImgErrors == 3

\* largest number of review requests that are unsettled at one time
MaxInflight == 2

\* largest number of UTF-16 code units of a text given to cleanText
MaxTextLen == 3

----------------------------------------------------------------------------
(* types.ts *)

Language == {"es", "eu"}

TEACHER == "Docente"
STUDENT == "Alumnado"
BOTH == "Ambos"
UserRole == {TEACHER, STUDENT, BOTH}

AppCategory == {"Gamificacion", "Creacion de Contenido", "Gestion",
                "Evaluacion", "Colaboracion", "Otros"}

EducationStage == {"Infantil", "Primaria", "Secundaria", "Bachillerato",
                   "FP", "Universidad"}

PriceModel == {"Gratis", "Freemium", "Pago"}

----------------------------------------------------------------------------
(* Generic helpers *)

Range(s) == {s[i] : i \in 1..Len(s)}

\* String.prototype.toLowerCase, one character
LowerChar(c) ==
    CASE c = "A" -> "a" [] c = "C" -> "c" [] c = "D" -> "d" [] c = "E" -> "e"
      [] c = "G" -> "g" [] c = "J" -> "j" [] c = "K" -> "k" [] c = "L" -> "l"
      [] c = "M" -> "m" [] c = "O" -> "o" [] c = "Q" -> "q" [] c = "S" -> "s"
      [] c = "U" -> "u" [] c = "Z" -> "z"
      [] OTHER -> c

\* String.prototype.toLowerCase
ToLowerCase(s) == [i \in 1..Len(s) |-> LowerChar(s[i])]

\* String.prototype.includes: sub occurs in s as a contiguous block
StrIncludes(s, sub) ==
    \E i \in 0..(Len(s) - Len(sub)) : SubSeq(s, i + 1, i + Len(sub)) = sub

\* Array.prototype.includes
ArrIncludes(arr, v) == \E i \in 1..Len(arr) : arr[i] = v

----------------------------------------------------------------------------
(* URLs and the favicon template *)

Schemes == {"https://", "http://"}

\* hostnames are lower-cased by the URL parser
LowerHost(h) ==
    CASE h = "Kahoot.com" -> "kahoot.com"
      [] OTHER -> h

\* new URL(website): throws unless the text starts with a scheme and a host
UrlParses(website) == Len(website) >= 2 /\ website[1] \in Schemes

\* new URL(website).hostname
Hostname(website) == LowerHost(website[2])

\* `https://www.google.com/s2/favicons?domain=${domain}&sz=128`
FaviconUrl(domain) ==
    <<"https://", "www.google.com", "/s2/favicons?domain=", domain, "&sz=128">>

----------------------------------------------------------------------------
(* Catalog entries (EduApp) used as inputs *)

\* minAge: null
NoAge == -1

Kahoot ==
    [id |-> "kahoot",
     name |-> <<"K", "a">>,
     description |-> [es |-> <<"Q", "u", "i", "z">>,
                      eu |-> <<"J", "o", "k", "o">>],
     category |-> "Gamificacion",
     targetAudience |-> BOTH,
     stages |-> <<"Primaria", "Secundaria">>,
     priceModel |-> "Freemium",
     website |-> <<"https://", "Kahoot.com", "/">>,
     iconUrl |-> FaviconUrl("kahoot.com"),
     features |-> [es |-> << <<"Q">>, <<"A">> >>,
                   eu |-> << <<"G">> >>],
     minAge |-> 13]

Moodle ==
    [id |-> "moodle",
     name |-> <<"M", "o">>,
     description |-> [es |-> <<"A", "u", "l", "a">>,
                      eu |-> <<"G", "e", "l", "a">>],
     category |-> "Gestion",
     targetAudience |-> TEACHER,
     stages |-> <<"Universidad">>,
     priceModel |-> "Gratis",
     website |-> <<"https://", "moodle.org">>,
     iconUrl |-> <<"https://", "cdn.example", "/logo.png">>,
     features |-> [es |-> << <<"U+201C", "a", "U+201D">>, <<"U+2022", "a">> >>,
                   eu |-> << <<"a", "U+2014", "a">> >>],
     minAge |-> NoAge]

Scratch ==
    [id |-> "scratch",
     name |-> <<"S", "c">>,
     description |-> [es |-> <<"C", "o", "d", "e">>,
                      eu |-> <<"K", "o", "d", "e">>],
     category |-> "Creacion de Contenido",
     targetAudience |-> STUDENT,
     stages |-> <<"Infantil", "Primaria">>,
     priceModel |-> "Gratis",
     website |-> <<"scratch.mit.edu">>,
     iconUrl |-> <<"https://", "scratch.mit.edu", "/icon.png">>,
     features |-> [es |-> << <<"U+D83D", "U+DE00">> >>,
                   eu |-> << >>],
     minAge |-> 0]

Quizizz ==
    [id |-> "quizizz",
     name |-> <<"Q", "z">>,
     description |-> [es |-> <<"Q", "u", "i", "z">>,
                      eu |-> <<"G", "a", "l", "d">>],
     category |-> "Evaluacion",
     targetAudience |-> BOTH,
     stages |-> <<"Secundaria", "Bachillerato">>,
     priceModel |-> "Pago",
     website |-> <<"https://", "quizizz.com">>,
     iconUrl |-> <<"https://", "cdn.example", "/logo.png">>,
     features |-> [es |-> << <<"U+20AC">> >>,
                   eu |-> << <<"U+00E9">> >>],
     minAge |-> 3]

Entries == {Kahoot, Moodle, Scratch, Quizizz}

\* the catalogs the filter is run on
Catalogs ==
    { << >>,
      <<Kahoot, Moodle, Scratch, Quizizz>>,
      <<Scratch, Quizizz, Moodle>> }

\* the texts typed into the search box
Queries == { << >>, <<"k">>, <<"G", "E", "L">> }

\* the options clicked in the four dropdowns
CategoryChoices == {"Gamificacion", "Gestion"}
StageChoices == {"Secundaria", "Universidad", "Infantil"}
RoleChoices == UserRole
PriceChoices == {"Gratis"}

----------------------------------------------------------------------------
(* App: the filter (useMemo at App.tsx 121-141) *)

\* mutation: the query is looked up in the description of the display
\* language only
matchesSearchActiveLanguage(app, term) ==
    \/ StrIncludes(ToLowerCase(app.name), ToLowerCase(term))
    \/ StrIncludes(ToLowerCase(app.description[language]), ToLowerCase(term))

\* mutation: an empty query matches nothing
matchesSearchNonEmpty(app, term) ==
    /\ term # << >>
    /\ \/ StrIncludes(ToLowerCase(app.name), ToLowerCase(term))
       \/ StrIncludes(ToLowerCase(app.description.es), ToLowerCase(term))
       \/ StrIncludes(ToLowerCase(app.description.eu), ToLowerCase(term))

matchesSearch(app, term) ==
    \/ StrIncludes(ToLowerCase(app.name), ToLowerCase(term))
    \/ StrIncludes(ToLowerCase(app.description.es), ToLowerCase(term))
    \/ StrIncludes(ToLowerCase(app.description.eu), ToLowerCase(term))

matchesCategory(app, cats) ==
    Len(cats) = 0 \/ ArrIncludes(cats, app.category)

\* mutation: every stage of the entry must be selected
matchesStageEvery(app, stages) ==
    Len(stages) = 0
        \/ \A i \in 1..Len(app.stages) : ArrIncludes(stages, app.stages[i])

matchesStage(app, stages) ==
    Len(stages) = 0
        \/ \E i \in 1..Len(app.stages) : ArrIncludes(stages, app.stages[i])

\* mutation: no special case for BOTH
matchesRoleExact(app, roles) ==
    Len(roles) = 0
        \/ \E i \in 1..Len(roles) : app.targetAudience = roles[i]

matchesRole(app, roles) ==
    Len(roles) = 0
        \/ \E i \in 1..Len(roles) :
               IF app.targetAudience = BOTH THEN TRUE
               ELSE app.targetAudience = roles[i]

\* mutation: the price selection is ignored
matchesPriceIgnored(app, prices) == TRUE

matchesPrice(app, prices) ==
    Len(prices) = 0 \/ ArrIncludes(prices, app.priceModel)

\* the callback of APP_DATA.filter
appPasses(app, term, cats, stages, roles, prices) ==
    /\ matchesSearch(app, term)
    /\ matchesCategory(app, cats)
    /\ matchesStage(app, stages)
    /\ matchesRole(app, roles)
    /\ matchesPrice(app, prices)

\* APP_DATA.filter(callback): visits the entries in index order, from index
\* i on, and keeps those the callback accepts
RECURSIVE filterFrom(_, _, _, _, _, _, _)
filterFrom(apps, i, term, cats, stages, roles, prices) ==
    IF i > Len(apps) THEN << >>
    ELSE IF appPasses(apps[i], term, cats, stages, roles, prices)
         THEN <<apps[i]>>
                  \o filterFrom(apps, i + 1, term, cats, stages, roles, prices)
         ELSE filterFrom(apps, i + 1, term, cats, stages, roles, prices)

\* mutation: the passing entries are collected in reverse order
filteredAppsMemoReversed(term, cats, stages, roles, prices) ==
    LET kept == filterFrom(catalog, 1, term, cats, stages, roles, prices)
    IN  [i \in 1..Len(kept) |-> kept[Len(kept) + 1 - i]]

\* the value useMemo computes for the given dependencies
filteredAppsMemo(term, cats, stages, roles, prices) ==
    filterFrom(catalog, 1, term, cats, stages, roles, prices)

\* mutation: the text query counts as an active filter
activeFilterCountWithQuery ==
    Len(selectedCategories) + Len(selectedStages) + Len(selectedRoles)
        + Len(selectedPrices) + (IF searchTerm # << >> THEN 1 ELSE 0)

activeFilterCount ==
    Len(selectedCategories) + Len(selectedStages) + Len(selectedRoles)
        + Len(selectedPrices)

\* the clear-filters button of the results header is rendered
clearButtonShown == activeFilterCount > 0 \/ searchTerm # << >>

----------------------------------------------------------------------------
(* MultiSelectDropdown *)

\* selectedValues.filter(v => v !== value), from index i on
RECURSIVE withoutValueFrom(_, _, _)
withoutValueFrom(selectedValues, value, i) ==
    IF i > Len(selectedValues) THEN << >>
    ELSE IF selectedValues[i] # value
         THEN <<selectedValues[i]>>
                  \o withoutValueFrom(selectedValues, value, i + 1)
         ELSE withoutValueFrom(selectedValues, value, i + 1)

\* mutation: the option is appended without looking at the selection
toggleOptionAlwaysAdds(selectedValues, value) ==
    selectedValues \o <<value>>

\* newValues of toggleOption
toggleOption(selectedValues, value) ==
    IF ArrIncludes(selectedValues, value)
    THEN withoutValueFrom(selectedValues, value, 1)
    ELSE selectedValues \o <<value>>

----------------------------------------------------------------------------
(* AppDetailModal: the review pipeline (part_002 28-30, 96-126) and        *)
(* analyzeAppWithGemini (part_003).                                        *)
(* A request is the promise of one generateAnalysis call together with the *)
(* isMounted flag of the effect run that made it.  Requests with the same  *)
(* entry, language and flag are not told apart.                            *)

\* analysis === null
NoReview == [present |-> FALSE]

\* error === null
NoError == ""

\* nothing was exported
NoExport == [outcome |-> "none"]

\* t.modal.error of the render that created the effect
ErrorText(lang) == IF lang = "es" THEN "error-es" ELSE "error-eu"

\* the fields of AIReview
AIReviewFields ==
    {"summary", "teacherTip", "studentActivity", "pros", "cons", "privacy"}

\* what the remote call can come back with: a rejected call, an empty text,
\* a text that is no JSON, and JSON objects with all or some of the fields
Responses ==
    { [resolved |-> FALSE, kind |-> "none", fields |-> {}],
      [resolved |-> TRUE, kind |-> "empty", fields |-> {}],
      [resolved |-> TRUE, kind |-> "garbage", fields |-> {}],
      [resolved |-> TRUE, kind |-> "json", fields |-> AIReviewFields],
      [resolved |-> TRUE, kind |-> "json",
       fields |-> AIReviewFields \ {"summary"}],
      [resolved |-> TRUE, kind |-> "json",
       fields |-> AIReviewFields \ {"privacy"}] }

\* mutation: the parsed object is checked against the required fields
analyzeAppWithGeminiValidating(appId, lang, resp) ==
    IF ~resp.resolved THEN [threw |-> TRUE, value |-> NoReview]
    ELSE IF resp.kind = "empty" THEN [threw |-> TRUE, value |-> NoReview]
    ELSE IF resp.kind # "json" THEN [threw |-> TRUE, value |-> NoReview]
    ELSE IF resp.fields # AIReviewFields
         THEN [threw |-> TRUE, value |-> NoReview]
    ELSE [threw |-> FALSE,
          value |-> [present |-> TRUE, app |-> appId, lang |-> lang,
                     fields |-> resp.fields]]

\* analyzeAppWithGemini: rethrows a rejected call, throws on an empty text,
\* lets JSON.parse throw, and returns the parsed object as it is
analyzeAppWithGemini(appId, lang, resp) ==
    IF ~resp.resolved THEN [threw |-> TRUE, value |-> NoReview]
    ELSE IF resp.kind = "empty" THEN [threw |-> TRUE, value |-> NoReview]
    ELSE IF resp.kind # "json" THEN [threw |-> TRUE, value |-> NoReview]
    ELSE [threw |-> FALSE,
          value |-> [present |-> TRUE, app |-> appId, lang |-> lang,
                     fields |-> resp.fields]]

\* the JSX under {analysis && ...} reads analysis.privacy.gdprCompliant,
\* analysis.pros.map and analysis.cons.map
RenderThrows(a) == a.present /\ ~({"privacy", "pros", "cons"} \subseteq a.fields)

\* the cleanup of the effect: isMounted = false
Cleanup(reqs) == {[r EXCEPT !.isMounted = FALSE] : r \in reqs}

\* mutation: a response is applied whatever the flag says
isMountedIgnored(r) == TRUE

\* if (isMounted)
isMounted(r) == r.isMounted

\* a handler that neither starts a request nor exports
Quiet(op) ==
    /\ lastOp' = op
    /\ started' = 0
    /\ lastExport' = NoExport
    /\ drawn' = << >>

\* mutation: generateAnalysis does not call setAnalysis(null)
RunReviewEffectKeepsAnalysis(appId, lang) ==
    /\ Cardinality(inflight) < MaxInflight
    /\ loading' = TRUE
    /\ error' = NoError
    /\ analysis' = analysis
    /\ inflight' = Cleanup(inflight)
                       \cup {[app |-> appId, lang |-> lang, isMounted |-> TRUE]}
    /\ started' = 1
    /\ lastExport' = NoExport
    /\ drawn' = << >>

\* the effect [app, language]: cleanup of the previous run, then
\* generateAnalysis up to its await
RunReviewEffect(appId, lang) ==
    /\ Cardinality(inflight) < MaxInflight
    /\ loading' = TRUE
    /\ error' = NoError
    /\ analysis' = NoReview
    /\ inflight' = Cleanup(inflight)
                       \cup {[app |-> appId, lang |-> lang, isMounted |-> TRUE]}
    /\ started' = 1
    /\ lastExport' = NoExport
    /\ drawn' = << >>

----------------------------------------------------------------------------
(* App: handlers.  Every handler ends with the re-render that re-evaluates *)
(* the useMemo when one of its dependencies changed.                       *)

\* onChange of the search input
setSearchTerm ==
    /\ ~crashed
    /\ \E q \in Queries :
        /\ q # searchTerm
        /\ searchTerm' = q
        /\ filteredApps' = filteredAppsMemo(q, selectedCategories,
                               selectedStages, selectedRoles, selectedPrices)
        /\ Quiet("setSearchTerm")
        /\ UNCHANGED reviewVars
        /\ UNCHANGED <<catalog, language, selectedCategories, selectedStages,
                       selectedRoles, selectedPrices, card, modal>>

toggleCategory ==
    /\ ~crashed
    /\ \E v \in CategoryChoices :
        LET newValues == toggleOption(selectedCategories, v) IN
        /\ Len(newValues) <= MaxSelected
        /\ selectedCategories' = newValues
        /\ filteredApps' = filteredAppsMemo(searchTerm, newValues,
                               selectedStages, selectedRoles, selectedPrices)
        /\ Quiet("toggleOption")
        /\ UNCHANGED reviewVars
        /\ UNCHANGED <<catalog, language, searchTerm, selectedStages,
                       selectedRoles, selectedPrices, card, modal>>

toggleStage ==
    /\ ~crashed
    /\ \E v \in StageChoices :
        LET newValues == toggleOption(selectedStages, v) IN
        /\ Len(newValues) <= MaxSelected
        /\ selectedStages' = newValues
        /\ filteredApps' = filteredAppsMemo(searchTerm, selectedCategories,
                               newValues, selectedRoles, selectedPrices)
        /\ Quiet("toggleOption")
        /\ UNCHANGED reviewVars
        /\ UNCHANGED <<catalog, language, searchTerm, selectedCategories,
                       selectedRoles, selectedPrices, card, modal>>

toggleRole ==
    /\ ~crashed
    /\ \E v \in RoleChoices :
        LET newValues == toggleOption(selectedRoles, v) IN
        /\ Len(newValues) <= MaxSelected
        /\ selectedRoles' = newValues
        /\ filteredApps' = filteredAppsMemo(searchTerm, selectedCategories,
                               selectedStages, newValues, selectedPrices)
        /\ Quiet("toggleOption")
        /\ UNCHANGED reviewVars
        /\ UNCHANGED <<catalog, language, searchTerm, selectedCategories,
                       selectedStages, selectedPrices, card, modal>>

togglePrice ==
    /\ ~crashed
    /\ \E v \in PriceChoices :
        LET newValues == toggleOption(selectedPrices, v) IN
        /\ Len(newValues) <= MaxSelected
        /\ selectedPrices' = newValues
        /\ filteredApps' = filteredAppsMemo(searchTerm, selectedCategories,
                               selectedStages, selectedRoles, newValues)
        /\ Quiet("toggleOption")
        /\ UNCHANGED reviewVars
        /\ UNCHANGED <<catalog, language, searchTerm, selectedCategories,
                       selectedStages, selectedRoles, card, modal>>

\* mutation: the review effect does not depend on language
toggleLanguageNoEffect ==
    /\ ~crashed
    /\ language' = (IF language = "es" THEN "eu" ELSE "es")
    /\ Quiet("toggleLanguage")
    /\ UNCHANGED reviewVars
    /\ UNCHANGED <<catalog, searchTerm, selectedCategories, selectedStages,
                   selectedRoles, selectedPrices, filteredApps, card, modal>>

\* language is no dependency of the useMemo: the cached list is reused.
\* It is a dependency of the review effect of an open detail view.
toggleLanguage ==
    /\ ~crashed
    /\ language' = (IF language = "es" THEN "eu" ELSE "es")
    /\ lastOp' = "toggleLanguage"
    /\ IF modal.mounted
       THEN /\ RunReviewEffect(modal.app.id, language')
            /\ UNCHANGED crashed
       ELSE /\ started' = 0
            /\ lastExport' = NoExport
            /\ drawn' = << >>
            /\ UNCHANGED reviewVars
    /\ UNCHANGED <<catalog, searchTerm, selectedCategories, selectedStages,
                   selectedRoles, selectedPrices, filteredApps, card, modal>>

\* mutation: the role selection is not reset
clearFiltersKeepRoles ==
    /\ ~crashed
    /\ clearButtonShown \/ Len(filteredApps) = 0
    /\ searchTerm' = << >>
    /\ selectedCategories' = << >>
    /\ selectedStages' = << >>
    /\ selectedPrices' = << >>
    /\ filteredApps' = filteredAppsMemo(<< >>, << >>, << >>, selectedRoles, << >>)
    /\ Quiet("clearFilters")
    /\ UNCHANGED reviewVars
    /\ UNCHANGED <<catalog, language, selectedRoles, card, modal>>

\* onClick of either clear button (results header, shown while a filter or
\* a query is active; empty-result panel, shown while the list is empty).
\* The five setters run in one event handler and are applied in one render.
clearFilters ==
    /\ ~crashed
    /\ clearButtonShown \/ Len(filteredApps) = 0
    /\ searchTerm' = << >>
    /\ selectedCategories' = << >>
    /\ selectedStages' = << >>
    /\ selectedRoles' = << >>
    /\ selectedPrices' = << >>
    /\ filteredApps' = filteredAppsMemo(<< >>, << >>, << >>, << >>, << >>)
    /\ Quiet("clearFilters")
    /\ UNCHANGED reviewVars
    /\ UNCHANGED <<catalog, language, card, modal>>

----------------------------------------------------------------------------
(* Image fallback chain: AppCard (part_001 15-38) and AppDetailModal       *)
(* (part_002 33-55) hold the same state and the same handler.              *)
(* errors counts the error events delivered to the instance; attempts is   *)
(* the list of sources given to the <img> element, one entry per change    *)
(* of its src attribute.                                                   *)

Unmounted == [mounted |-> FALSE]

\* useState(app.iconUrl), useState(false)
ImageInit(app) ==
    [mounted |-> TRUE, app |-> app, imgSrc |-> app.iconUrl,
     showPlaceholder |-> FALSE, errors |-> 0, attempts |-> <<app.iconUrl>>]

\* mutation: the <img> element stays rendered under the placeholder
ImgRenderedAlways(view) == view.mounted

\* the <img> element, which carries onError, is rendered
ImgRendered(view) == view.mounted /\ ~view.showPlaceholder

\* the state after setImgSrc(src): a new source is a new load attempt,
\* the same source leaves the element as it is
SetImgSrc(view, src) ==
    [view EXCEPT !.imgSrc = src,
                 !.attempts = IF src = view.imgSrc THEN @ ELSE Append(@, src)]

\* mutation: the catch block pastes the unparsed website into the favicon
\* template
catchParseErrorFavicon(view) ==
    SetImgSrc(view, FaviconUrl(view.app.website[1]))

\* catch (e) { setShowPlaceholder(true) }
catchParseError(view) == [view EXCEPT !.showPlaceholder = TRUE]

\* mutation: the favicon is looked up for the host of the icon, not of the
\* website
handleImgErrorIconHost(view) ==
    LET counted == [view EXCEPT !.errors = @ + 1] IN
    IF view.imgSrc = view.app.iconUrl
    THEN IF UrlParses(view.app.iconUrl)
         THEN SetImgSrc(counted, FaviconUrl(Hostname(view.app.iconUrl)))
         ELSE [counted EXCEPT !.showPlaceholder = TRUE]
    ELSE [counted EXCEPT !.showPlaceholder = TRUE]

\* handleImgError: the state of the instance after one error event
handleImgError(view) ==
    LET counted == [view EXCEPT !.errors = @ + 1] IN
    IF view.imgSrc = view.app.iconUrl
    THEN IF UrlParses(view.app.website)
         THEN SetImgSrc(counted, FaviconUrl(Hostname(view.app.website)))
         ELSE catchParseError(counted)
    ELSE [counted EXCEPT !.showPlaceholder = TRUE]

\* app.minAge !== null && app.minAge !== undefined: the age badge is drawn
CardShowsAge(minAge) == minAge # NoAge

\* a card is rendered for an entry of the filtered list (key = app.id)
cardMount ==
    /\ ~crashed
    /\ ~card.mounted
    /\ \E i \in 1..Len(filteredApps) : card' = ImageInit(filteredApps[i])
    /\ Quiet("cardMount")
    /\ UNCHANGED reviewVars
    /\ UNCHANGED <<filterVars, modal>>

cardUnmount ==
    /\ ~crashed
    /\ card.mounted
    /\ card' = Unmounted
    /\ Quiet("cardUnmount")
    /\ UNCHANGED reviewVars
    /\ UNCHANGED <<filterVars, modal>>

\* onError of the card's <img>.  Error events are inputs: the handler can
\* run whenever the element that carries it is rendered.
cardImgError ==
    /\ ~crashed
    /\ ImgRendered(card)
    /\ card.errors < MaxImgErrors
    /\ card' = handleImgError(card)
    /\ Quiet("cardImgError")
    /\ UNCHANGED reviewVars
    /\ UNCHANGED <<filterVars, modal>>

\* mutation: mounting the detail view issues no request
modalOpenNoRequest ==
    /\ ~crashed
    /\ ~modal.mounted
    /\ \E i \in 1..Len(filteredApps) : modal' = ImageInit(filteredApps[i])
    /\ loading' = TRUE
    /\ Quiet("modalOpen")
    /\ UNCHANGED <<filterVars, card, analysis, error, inflight, crashed>>

\* onClick of a card: setSelectedApp(app) mounts the detail view, whose
\* review effect runs after the first render
modalOpen ==
    /\ ~crashed
    /\ ~modal.mounted
    /\ \E i \in 1..Len(filteredApps) :
           /\ modal' = ImageInit(filteredApps[i])
           /\ RunReviewEffect(filteredApps[i].id, language)
    /\ lastOp' = "modalOpen"
    /\ UNCHANGED <<filterVars, card, crashed>>

\* the props of a mounted detail view change to entry app: the image state
\* is reset by the effect [app.iconUrl], which runs only when that value
\* changed; errors and attempts restart with the new entry
ReplaceApp(view, app) ==
    IF app.iconUrl # view.app.iconUrl
    THEN ImageInit(app)
    ELSE [view EXCEPT !.app = app, !.errors = 0,
                      !.attempts = IF view.showPlaceholder THEN << >>
                                   ELSE <<view.imgSrc>>]

\* onClick of a card while the detail view is open: setSelectedApp(app)
\* hands another entry to the mounted detail view
modalReplace ==
    /\ ~crashed
    /\ modal.mounted
    /\ \E i \in 1..Len(filteredApps) :
           /\ filteredApps[i].id # modal.app.id
           /\ modal' = ReplaceApp(modal, filteredApps[i])
           /\ RunReviewEffect(filteredApps[i].id, language)
    /\ lastOp' = "modalReplace"
    /\ UNCHANGED <<filterVars, card, crashed>>

\* onClose: setSelectedApp(null) unmounts the detail view; the cleanup of
\* the review effect runs and the state of the component is dropped
modalClose ==
    /\ ~crashed
    /\ modal.mounted
    /\ modal' = Unmounted
    /\ analysis' = NoReview
    /\ loading' = FALSE
    /\ error' = NoError
    /\ inflight' = Cleanup(inflight)
    /\ Quiet("modalClose")
    /\ UNCHANGED <<filterVars, card, crashed>>

\* onError of the detail view's <img>
modalImgError ==
    /\ ~crashed
    /\ ImgRendered(modal)
    /\ modal.errors < MaxImgErrors
    /\ modal' = handleImgError(modal)
    /\ Quiet("modalImgError")
    /\ UNCHANGED reviewVars
    /\ UNCHANGED <<filterVars, card>>

----------------------------------------------------------------------------
(* AppDetailModal: settling of a review request, and the report export *)

\* mutation: the finally block does not run after a failure
reviewSettleNoFinally ==
    \E r \in inflight, resp \in Responses :
        LET result == analyzeAppWithGemini(r.app, r.lang, resp) IN
        /\ inflight' = inflight \ {r}
        /\ lastOp' = (IF result.threw THEN "reviewRejected" ELSE "reviewResolved")
        /\ started' = 0
        /\ lastExport' = NoExport
        /\ drawn' = << >>
        /\ IF isMounted(r)
           THEN /\ analysis' = (IF result.threw THEN analysis ELSE result.value)
                /\ error' = (IF result.threw THEN ErrorText(r.lang) ELSE error)
                /\ loading' = (IF result.threw THEN loading ELSE FALSE)
                /\ UNCHANGED <<filterVars, card, modal, crashed>>
           ELSE UNCHANGED <<filterVars, card, modal, analysis, loading, error,
                            crashed>>

\* the promise of a request settles with response resp: the rest of
\* generateAnalysis runs (try / catch / finally, each under if (isMounted)),
\* then the detail view renders again.  A render that throws is caught by no
\* error boundary: React unmounts the whole tree, so no list, no card and no
\* detail view are rendered any more.
reviewSettle ==
    \E r \in inflight, resp \in Responses :
        LET result == analyzeAppWithGemini(r.app, r.lang, resp)
            newAnalysis == IF result.threw THEN analysis ELSE result.value
        IN
        /\ lastOp' = (IF result.threw THEN "reviewRejected" ELSE "reviewResolved")
        /\ started' = 0
        /\ lastExport' = NoExport
        /\ drawn' = << >>
        /\ IF isMounted(r)
           THEN IF RenderThrows(newAnalysis)
                THEN /\ crashed' = TRUE
                     /\ inflight' = Cleanup(inflight \ {r})
                     /\ filteredApps' = << >>
                     /\ card' = Unmounted
                     /\ modal' = Unmounted
                     /\ analysis' = NoReview
                     /\ loading' = FALSE
                     /\ error' = NoError
                     /\ UNCHANGED <<catalog, language, searchTerm,
                                    selectedCategories, selectedStages,
                                    selectedRoles, selectedPrices>>
                ELSE /\ inflight' = inflight \ {r}
                     /\ analysis' = newAnalysis
                     /\ error' = (IF result.threw THEN ErrorText(r.lang)
                                  ELSE error)
                     /\ loading' = FALSE
                     /\ UNCHANGED <<filterVars, card, modal, crashed>>
           ELSE /\ inflight' = inflight \ {r}
                /\ UNCHANGED <<filterVars, card, modal, analysis, loading,
                               error, crashed>>

----------------------------------------------------------------------------
(* AppDetailModal: cleanText.  A text is a sequence of UTF-16 code units;  *)
(* a code unit outside ASCII is written by its number ("U+2018"), every    *)
(* other one-character string stands for itself.                           *)

\* /[\u2018\u2019]/g
SingleQuotes == {"U+2018", "U+2019"}

\* /[\u201C\u201D]/g
DoubleQuotes == {"U+201C", "U+201D"}

\* /[\u2013\u2014]/g
Dashes == {"U+2013", "U+2014"}

\* the bullet of the fourth replace call
Bullet == "U+2022"

\* the code units used here that lie outside 00-7F and A0-FF: the eight
\* above, a C1 control, the euro sign and the two surrogates of U+1F600
OutOfRange ==
    SingleQuotes \cup DoubleQuotes \cup Dashes
        \cup {Bullet, "U+0085", "U+20AC", "U+D83D", "U+DE00"}

\* the negated class [^\x00-\x7F\xA0-\xFF\n\r] matches the code unit
ClassMatches(c) == c \in OutOfRange

\* the code units texts are built from: two ASCII ones, e acute and the
\* twelve outside the range
Alphabet == {"a", "\n", "U+00E9"} \cup OutOfRange

\* the texts cleanText is applied to
Texts == UNION {[1..n -> Alphabet] : n \in 0..MaxTextLen}

\* String.prototype.replace with a global one-code-unit pattern
ReplaceSet(text, matched, by) ==
    [i \in 1..Len(text) |-> IF text[i] \in matched THEN by ELSE text[i]]

\* the last replace call of cleanText
ReplaceClass(text) ==
    [i \in 1..Len(text) |-> IF ClassMatches(text[i]) THEN " " ELSE text[i]]

\* mutation: code units outside the range are removed instead of replaced
cleanTextDropping(text) ==
    IF text = << >> THEN << >>
    ELSE SelectSeq(ReplaceSet(ReplaceSet(ReplaceSet(ReplaceSet(text,
             SingleQuotes, "'"), DoubleQuotes, "\""), Dashes, "-"),
             {Bullet}, "-"), LAMBDA c : ~ClassMatches(c))

\* cleanText
cleanText(text) ==
    IF text = << >> THEN << >>
    ELSE ReplaceClass(ReplaceSet(ReplaceSet(ReplaceSet(ReplaceSet(text,
             SingleQuotes, "'"), DoubleQuotes, "\""), Dashes, "-"),
             {Bullet}, "-"))

\* doc.text(cleanText(raw), ...)
DrawClean(line, raw) ==
    [line |-> line, raw |-> raw, text |-> cleanText(raw), sanitized |-> TRUE]

\* doc.text(raw, ...)
DrawRaw(line, raw) ==
    [line |-> line, raw |-> raw, text |-> raw, sanitized |-> FALSE]

\* the call doc.text(cleanText(x), ...) for the text x that is waiting
cleanTextCall ==
    /\ ~crashed
    /\ Len(drawn) = 1
    /\ ~drawn[1].sanitized
    /\ drawn' = <<DrawClean(drawn[1].line, drawn[1].raw)>>
    /\ lastOp' = "cleanText"
    /\ started' = 0
    /\ lastExport' = NoExport
    /\ UNCHANGED <<filterVars, card, modal, reviewVars>>

\* the lines handleDownloadPDF always draws: header, description, the four
\* details, features
BaseLines ==
    <<"name", "reportDate", "website", "about", "description", "category",
      "role", "minAge", "stage", "features", "featuresList">>

\* the lines drawn under if (analysis)
ReviewLines ==
    <<"aiAnalysis", "summary", "teacherTip", "studentActivity",
      "privacyTitle", "gdpr", "ageWarning", "privacySummary",
      "dataCollection", "pros", "cons">>

\* the line drawn in the else branch
BasicNote == <<"basicNote">>

\* mutation: no note is drawn when the review is absent
ReportLinesWithoutNote(a) ==
    IF a.present THEN BaseLines \o ReviewLines ELSE BaseLines

\* the lines of the document built by handleDownloadPDF
ReportLines(a) ==
    IF a.present THEN BaseLines \o ReviewLines ELSE BaseLines \o BasicNote

\* t.<key> of getTranslation(language): one token per key and language
Label(key, lang) == <<key, lang>>

\* new Date().toLocaleDateString('es-ES' or 'eu-ES') on 5 November 2026
LocaleDate(lang) ==
    IF lang = "es" THEN <<"5", "/", "1", "1", "/", "2", "0", "2", "6">>
    ELSE <<"2", "0", "2", "6", "/", "1", "1", "/", "5">>

\* the decimal digits
Digit == <<"0", "1", "2", "3", "4", "5", "6", "7", "8", "9">>

\* a number below 100 inside a template literal
NumberText(n) ==
    IF n < 10 THEN <<Digit[n + 1]>>
    ELSE <<Digit[(n \div 10) + 1], Digit[(n % 10) + 1]>>

\* Array.prototype.join(', ') from position i on
RECURSIVE JoinFrom(_, _)
JoinFrom(list, i) ==
    IF i > Len(list) THEN << >>
    ELSE IF i = Len(list) THEN list[i]
    ELSE list[i] \o <<",", " ">> \o JoinFrom(list, i + 1)

\* app.minAge ? app.minAge + '+' : '-' (report, and the row of the view)
ModalAgeText(minAge) ==
    IF minAge # NoAge /\ minAge # 0 THEN NumberText(minAge) \o <<"+">>
    ELSE <<"-">>

\* a text of the review as the service wrote it; a missing field reads as
\* undefined
ReviewText(a, field) ==
    IF field \in a.fields THEN <<"U+2019", field, "U+D83D", "U+DE00">>
    ELSE << >>

\* the text handed to the call that draws a line, before cleanText
LineRaw(line, app, lang, a) ==
    CASE line = "name" -> app.name
      [] line = "reportDate" ->
             Label("modal.reportDate", lang) \o <<":", " ">> \o LocaleDate(lang)
      [] line = "website" -> app.website
      [] line = "description" -> app.description[lang]
      [] line = "category" ->
             Label("filters.category", lang) \o <<":", " ">>
                 \o Label(app.category, lang)
      [] line = "role" ->
             Label("filters.role", lang) \o <<":", " ">>
                 \o Label(app.targetAudience, lang)
      [] line = "minAge" ->
             Label("card.minAge", lang) \o <<":", " ">>
                 \o ModalAgeText(app.minAge)
      [] line = "stage" ->
             Label("filters.stage", lang) \o <<":", " ">>
                 \o JoinFrom([i \in 1..Len(app.stages) |->
                                 Label(app.stages[i], lang)], 1)
      [] line = "featuresList" -> JoinFrom(app.features[lang], 1)
      [] line \in {"summary", "teacherTip", "studentActivity"} ->
             Label(line, lang) \o ReviewText(a, line)
      [] line \in {"gdpr", "ageWarning", "privacySummary", "dataCollection"} ->
             Label(line, lang) \o <<":", " ">> \o ReviewText(a, "privacy")
      [] line \in {"pros", "cons"} ->
             Label(line, lang) \o <<"-", " ">> \o ReviewText(a, line)
      [] line = "basicNote" ->
             <<"(", "I", "n", "f", "o", "r", "m", "e", " ", "b",
               "U+00E1", "s", "i", "c", "o", ")">>
      [] OTHER -> Label(line, lang)

\* the call that draws a line: only the date line (doc.text at the header)
\* is not wrapped in cleanText
DrawLine(line, app, lang, a) ==
    IF line = "reportDate" THEN DrawRaw(line, LineRaw(line, app, lang, a))
    ELSE DrawClean(line, LineRaw(line, app, lang, a))

\* the texts handed to the exporter for a document
ReportTexts(lines, app, lang, a) ==
    [i \in 1..Len(lines) |-> DrawLine(lines[i], app, lang, a)]

\* the try block throws by itself: analysis.privacy, analysis.pros or
\* analysis.cons is read from an object that lacks it
ExportCodeThrows(a) ==
    a.present /\ ~({"privacy", "pros", "cons"} \subseteq a.fields)

\* mutation: a failed export closes the detail view
handleDownloadPDFClosesOnFailure ==
    /\ ~crashed
    /\ modal.mounted
    /\ ~loading
    /\ \E exporterThrows \in BOOLEAN :
           /\ lastExport' =
                  IF exporterThrows \/ ExportCodeThrows(analysis)
                  THEN [outcome |-> "failed", exporterThrew |-> exporterThrows,
                        alert |-> TRUE, doc |-> << >>]
                  ELSE [outcome |-> "saved", exporterThrew |-> FALSE,
                        alert |-> FALSE, doc |-> ReportLines(analysis)]
           /\ modal' = IF exporterThrows \/ ExportCodeThrows(analysis)
                       THEN Unmounted ELSE modal
    /\ drawn' = ReportTexts(IF ExportCodeThrows(analysis) THEN BaseLines
                            ELSE ReportLines(analysis),
                            modal.app, language, analysis)
    /\ lastOp' = "handleDownloadPDF"
    /\ started' = 0
    /\ UNCHANGED <<filterVars, card, reviewVars>>

\* onClick of the download button (disabled while loading).  The exporter
\* (jsPDF) may throw, here in doc.save after every text was drawn; the catch
\* block then raises the alert.
handleDownloadPDF ==
    /\ ~crashed
    /\ modal.mounted
    /\ ~loading
    /\ \E exporterThrows \in BOOLEAN :
           lastExport' =
               IF exporterThrows \/ ExportCodeThrows(analysis)
               THEN [outcome |-> "failed", exporterThrew |-> exporterThrows,
                     alert |-> TRUE, doc |-> << >>]
               ELSE [outcome |-> "saved", exporterThrew |-> FALSE,
                     alert |-> FALSE, doc |-> ReportLines(analysis)]
    /\ drawn' = ReportTexts(IF ExportCodeThrows(analysis) THEN BaseLines
                            ELSE ReportLines(analysis),
                            modal.app, language, analysis)
    /\ lastOp' = "handleDownloadPDF"
    /\ started' = 0
    /\ UNCHANGED <<filterVars, card, modal, reviewVars>>

----------------------------------------------------------------------------
(* Specifications *)

\* the state after the first render of App
InitApp ==
    /\ language = "es"
    /\ searchTerm = << >>
    /\ selectedCategories = << >>
    /\ selectedStages = << >>
    /\ selectedRoles = << >>
    /\ selectedPrices = << >>
    /\ filteredApps = filteredAppsMemo(<< >>, << >>, << >>, << >>, << >>)
    /\ card = Unmounted
    /\ modal = Unmounted
    /\ analysis = NoReview
    /\ loading = FALSE
    /\ error = NoError
    /\ inflight = {}
    /\ crashed = FALSE
    /\ lastOp = "init"
    /\ started = 0
    /\ lastExport = NoExport

\* the filter engine, for every catalog of Catalogs
Init ==
    /\ catalog \in Catalogs
    /\ drawn = << >>
    /\ InitApp

Next ==
    \/ setSearchTerm
    \/ toggleCategory
    \/ toggleStage
    \/ toggleRole
    \/ togglePrice
    \/ toggleLanguage
    \/ clearFilters

Spec == Init /\ [][Next]_vars

\* the image chains of one card and of the detail view, over the unfiltered
\* four-entry catalog
InitImage ==
    /\ catalog = <<Kahoot, Moodle, Scratch, Quizizz>>
    /\ drawn = << >>
    /\ InitApp

NextImage ==
    \/ cardMount
    \/ cardUnmount
    \/ cardImgError
    \/ modalOpen
    \/ modalClose
    \/ modalImgError

SpecImage == InitImage /\ [][NextImage]_vars

\* the detail view with its review pipeline, next to one card, over a
\* three-entry catalog of which two entries share their iconUrl; the filter
\* is either empty or set to the teacher role
InitDetail ==
    /\ catalog = <<Moodle, Quizizz, Scratch>>
    /\ language = "es"
    /\ searchTerm = << >>
    /\ selectedCategories = << >>
    /\ selectedStages = << >>
    /\ selectedRoles \in {<< >>, <<TEACHER>>}
    /\ selectedPrices = << >>
    /\ filteredApps = filteredAppsMemo(<< >>, << >>, << >>, selectedRoles, << >>)
    /\ card = ImageInit(Moodle)
    /\ modal = Unmounted
    /\ analysis = NoReview
    /\ loading = FALSE
    /\ error = NoError
    /\ inflight = {}
    /\ crashed = FALSE
    /\ lastOp = "init"
    /\ started = 0
    /\ lastExport = NoExport
    /\ drawn = << >>

NextDetail ==
    \/ modalOpen
    \/ modalReplace
    \/ modalClose
    \/ modalImgError
    \/ cardImgError
    \/ toggleLanguage
    \/ reviewSettle
    \/ handleDownloadPDF

SpecDetail == InitDetail /\ [][NextDetail]_vars

\* cleanText applied to every text of Texts: one text waits to be drawn
InitText ==
    /\ catalog = << >>
    /\ \E text \in Texts : drawn = <<DrawRaw("text", text)>>
    /\ InitApp

NextText == cleanTextCall

SpecText == InitText /\ [][NextText]_vars

----------------------------------------------------------------------------
(* Vocabulary of the properties: the five predicates of the filter         *)
(* contract, stated on sets and positions instead of array traversals.     *)

\* two characters are the same letter up to case
SameLetter(a, b) == LowerChar(a) = LowerChar(b)

\* query q occurs in text s at some offset, letter by letter, ignoring case
OccursIgnoringCase(s, q) ==
    \E off \in 0..Len(s) :
        /\ off + Len(q) <= Len(s)
        /\ \A j \in 1..Len(q) : SameLetter(s[off + j], q[j])

TextOK(e) ==
    \/ searchTerm = << >>
    \/ OccursIgnoringCase(e.name, searchTerm)
    \/ OccursIgnoringCase(e.description.es, searchTerm)
    \/ OccursIgnoringCase(e.description.eu, searchTerm)

CategoryOK(e) ==
    Range(selectedCategories) = {} \/ e.category \in Range(selectedCategories)

StageOK(e) ==
    Range(selectedStages) = {}
        \/ Range(e.stages) \cap Range(selectedStages) # {}

RoleOK(e) ==
    \/ Range(selectedRoles) = {}
    \/ e.targetAudience = BOTH
    \/ e.targetAudience \in Range(selectedRoles)

PriceOK(e) ==
    Range(selectedPrices) = {} \/ e.priceModel \in Range(selectedPrices)

Shown(e) == e \in Range(filteredApps)

\* position of an entry in the catalog
CatalogIndex(e) == CHOOSE k \in 1..Len(catalog) : catalog[k] = e

NoSelection ==
    /\ selectedCategories = << >>
    /\ selectedStages = << >>
    /\ selectedRoles = << >>
    /\ selectedPrices = << >>

----------------------------------------------------------------------------
(* Properties of the filter engine (specification Spec) *)

\* C1: the filtered list contains exactly the catalog entries that satisfy
\* all five predicates (text, category, stage, role, price) at once; within
\* a dimension an empty selection is no constraint and one matching selected
\* value is enough.
C1_ExactlyAllFivePredicates ==
    /\ Range(filteredApps) \subseteq Range(catalog)
    /\ \A i \in 1..Len(catalog) :
           Shown(catalog[i]) <=>
               /\ TextOK(catalog[i])
               /\ CategoryOK(catalog[i])
               /\ StageOK(catalog[i])
               /\ RoleOK(catalog[i])
               /\ PriceOK(catalog[i])

\* all five dimensions constrain at once; one entry passes, others do not
C1_Witness ==
    /\ searchTerm = <<"G", "E", "L">>
    /\ selectedCategories = <<"Gamificacion", "Gestion">>
    /\ selectedStages = <<"Universidad">>
    /\ selectedRoles = <<TEACHER>>
    /\ selectedPrices = <<"Gratis">>
    /\ Len(catalog) = 4
    /\ filteredApps = <<Moodle>>

\* C2: with an empty query and four empty selections the filter returns the
\* whole catalog: every entry, once, in catalog order.
C2_EmptyFilterReturnsCatalog ==
    (searchTerm = << >> /\ NoSelection) => filteredApps = catalog

\* the empty filter is reached again by un-toggling an option
C2_Witness ==
    /\ lastOp = "toggleOption"
    /\ searchTerm = << >>
    /\ NoSelection
    /\ Len(catalog) = 4
    /\ filteredApps = catalog

\* C3: the filtered list is a subsequence of the catalog: its entries are
\* catalog entries, none occurs twice, and any two of them are in catalog
\* order.
C3_SubsequenceOfCatalog ==
    /\ \A i \in 1..Len(filteredApps) :
           \E k \in 1..Len(catalog) : catalog[k] = filteredApps[i]
    /\ \A i, j \in 1..Len(filteredApps) :
           i < j => CatalogIndex(filteredApps[i]) < CatalogIndex(filteredApps[j])

\* two entries pass and a catalog entry between or around them is dropped
C3_Witness ==
    /\ Len(filteredApps) >= 2
    /\ Len(filteredApps) < Len(catalog)
    /\ ~NoSelection

\* C4: under a non-empty role selection an entry for BOTH passes the role
\* predicate whatever the selected roles are, and an entry for TEACHER
\* (STUDENT) passes only if TEACHER (STUDENT) is selected.
C4_RoleAsymmetry ==
    selectedRoles # << >> =>
        \A i \in 1..Len(catalog) :
            LET e == catalog[i] IN
            /\ (e.targetAudience = BOTH /\ TextOK(e) /\ CategoryOK(e)
                    /\ StageOK(e) /\ PriceOK(e)) => Shown(e)
            /\ (e.targetAudience = TEACHER /\ Shown(e))
                   => TEACHER \in Range(selectedRoles)
            /\ (e.targetAudience = STUDENT /\ Shown(e))
                   => STUDENT \in Range(selectedRoles)

\* role selection {student}: the BOTH entries and the student entry are
\* listed, the teacher entry is not
C4_Witness ==
    /\ selectedRoles = <<STUDENT>>
    /\ searchTerm = << >>
    /\ selectedCategories = << >> /\ selectedStages = << >>
    /\ selectedPrices = << >>
    /\ Len(catalog) = 4
    /\ Shown(Kahoot) /\ Shown(Quizizz) /\ Shown(Scratch)
    /\ ~Shown(Moodle)

\* C5: under a non-empty stage selection an entry passes the stage predicate
\* exactly when its stages and the selection share a tag.
C5_StageIntersection ==
    selectedStages # << >> =>
        \A i \in 1..Len(catalog) :
            LET e == catalog[i] IN
            (TextOK(e) /\ CategoryOK(e) /\ RoleOK(e) /\ PriceOK(e)) =>
                (Shown(e) <=>
                    \E s \in Range(e.stages) : s \in Range(selectedStages))

\* one shared tag is enough (the entry's stages are neither included in nor
\* equal to the selection) and an entry sharing no tag is dropped
C5_Witness ==
    /\ Range(selectedStages) = {"Secundaria", "Universidad"}
    /\ searchTerm = << >>
    /\ selectedCategories = << >> /\ selectedRoles = << >>
    /\ selectedPrices = << >>
    /\ Len(catalog) = 4
    /\ Shown(Kahoot)
    /\ ~(Range(Kahoot.stages) \subseteq Range(selectedStages))
    /\ ~Shown(Scratch)

\* C6: the text predicate is a case-insensitive substring test against the
\* name and both descriptions, whatever the display language is, and a
\* change of the display language alone leaves the filtered list as it is.
C6_SearchIgnoresLanguage ==
    [][ /\ \A i \in 1..Len(catalog) :
               LET e == catalog[i] IN
               (CategoryOK(e) /\ StageOK(e) /\ RoleOK(e) /\ PriceOK(e)) =>
                   (Shown(e) <=>
                       \/ OccursIgnoringCase(e.name, searchTerm)
                       \/ OccursIgnoringCase(e.description.es, searchTerm)
                       \/ OccursIgnoringCase(e.description.eu, searchTerm))
        /\ (language' # language) => (filteredApps' = filteredApps)
      ]_vars

\* a query found only in the Basque description lists the entry while the
\* display language is Spanish, after the language was switched
C6_Witness ==
    /\ language = "es"
    /\ lastOp = "toggleLanguage"
    /\ searchTerm = <<"G", "E", "L">>
    /\ ~OccursIgnoringCase(Moodle.name, searchTerm)
    /\ ~OccursIgnoringCase(Moodle.description.es, searchTerm)
    /\ Shown(Moodle)

\* C7: in the state reached by clearFilters the query and the four
\* selections are empty, the active-filter count is zero and the filtered
\* list is the catalog.
C7_ResetClearsEverything ==
    lastOp = "clearFilters" =>
        /\ searchTerm = << >>
        /\ selectedCategories = << >>
        /\ selectedStages = << >>
        /\ selectedRoles = << >>
        /\ selectedPrices = << >>
        /\ activeFilterCount = 0
        /\ filteredApps = catalog

C7_Witness ==
    /\ lastOp = "clearFilters"
    /\ Len(catalog) = 4
    /\ Len(filteredApps) = 4

\* C8: the active-filter count is the sum of the sizes of the four selection
\* sets, and a step that changes the query alone does not change it.
C8_CountIsSumOfSelections ==
    [][ /\ activeFilterCount =
               Cardinality(Range(selectedCategories))
             + Cardinality(Range(selectedStages))
             + Cardinality(Range(selectedRoles))
             + Cardinality(Range(selectedPrices))
        /\ (searchTerm' # searchTerm
              /\ UNCHANGED <<selectedCategories, selectedStages,
                             selectedRoles, selectedPrices>>)
               => activeFilterCount' = activeFilterCount
      ]_vars

\* a query was just typed while several options are selected
C8_Witness ==
    /\ lastOp = "setSearchTerm"
    /\ searchTerm # << >>
    /\ activeFilterCount = 4
    /\ Len(selectedStages) = 2

----------------------------------------------------------------------------
(* Properties of the image chain (specification SpecImage) *)

Views == {card, modal}

\* C9: for an entry with a parseable website the first source is iconUrl;
\* nothing else is attempted before an error event; the second source, if
\* any, is the favicon URL of the website's hostname, and it is the source
\* in use after the first failure.
C9_SourceOrder ==
    \A view \in Views :
        (view.mounted /\ UrlParses(view.app.website)) =>
            /\ view.attempts[1] = view.app.iconUrl
            /\ view.errors = 0 => view.attempts = <<view.app.iconUrl>>
            /\ Len(view.attempts) <= 2
            /\ Len(view.attempts) = 2 =>
                   view.attempts[2] =
                       <<"https://", "www.google.com", "/s2/favicons?domain=",
                         Hostname(view.app.website), "&sz=128">>
            /\ (view.errors >= 1 /\ ~view.showPlaceholder) =>
                   view.imgSrc =
                       <<"https://", "www.google.com", "/s2/favicons?domain=",
                         Hostname(view.app.website), "&sz=128">>

\* the icon of an entry failed once and the favicon of its website is tried
C9_Witness ==
    /\ card.mounted
    /\ card.app = Moodle
    /\ card.errors = 1
    /\ card.attempts = <<Moodle.iconUrl,
                         <<"https://", "www.google.com", "/s2/favicons?domain=",
                           "moodle.org", "&sz=128">> >>

\* C10: for an entry with a parseable website, after two error events the
\* placeholder is shown and at most two sources were attempted, whatever
\* iconUrl is.
C10_PlaceholderAfterTwoFailures ==
    \A view \in Views :
        (view.mounted /\ UrlParses(view.app.website)) =>
            /\ view.errors >= 2 => view.showPlaceholder
            /\ Cardinality(Range(view.attempts)) <= 2

\* place of an instance in the chain: 1 primary, 2 secondary, 3 placeholder
Stage(view) ==
    IF view.showPlaceholder THEN 3
    ELSE IF view.imgSrc # view.app.iconUrl THEN 2
    ELSE 1

\* a step keeps the instance and its entry
SameInstance(view, next) ==
    view.mounted /\ next.mounted /\ next.app = view.app

\* C11: for an entry whose website does not parse, the only source ever
\* attempted is iconUrl and its first failure shows the placeholder; the
\* step that does so changes neither the review state of the detail view,
\* nor the filter, nor the other component.
C11_UnparseableSkipsFavicon ==
    [][ /\ \A view \in Views :
               (view.mounted /\ ~UrlParses(view.app.website)) =>
                   /\ view.attempts = <<view.app.iconUrl>>
                   /\ view.imgSrc = view.app.iconUrl
                   /\ view.errors >= 1 => view.showPlaceholder
        /\ (lastOp' \in {"cardImgError", "modalImgError"}) =>
               UNCHANGED <<filterVars, analysis, loading, error, crashed>>
      ]_vars

\* the icon of the entry with the unparseable website failed once
C11_Witness ==
    /\ card.mounted
    /\ card.app = Scratch
    /\ ~UrlParses(card.app.website)
    /\ card.errors = 1
    /\ card.showPlaceholder
    /\ card.attempts = <<Scratch.iconUrl>>

\* C12: for one instance showing one entry the chain only moves forward,
\* the list of attempted sources only grows at its end, and once the
\* placeholder is shown nothing about the instance changes any more.
C12_ForwardOnly ==
    [][ /\ SameInstance(card, card') =>
               /\ Stage(card') >= Stage(card)
               /\ Len(card'.attempts) >= Len(card.attempts)
               /\ SubSeq(card'.attempts, 1, Len(card.attempts)) = card.attempts
               /\ card.showPlaceholder => card' = card
        /\ SameInstance(modal, modal') =>
               /\ Stage(modal') >= Stage(modal)
               /\ Len(modal'.attempts) >= Len(modal.attempts)
               /\ SubSeq(modal'.attempts, 1, Len(modal.attempts)) = modal.attempts
               /\ modal.showPlaceholder => modal' = modal
      ]_vars

\* an instance went through primary and secondary to the placeholder
C12_Witness ==
    /\ modal.mounted
    /\ modal.app = Quizizz
    /\ modal.errors = 2
    /\ Len(modal.attempts) = 2
    /\ Stage(modal) = 3

----------------------------------------------------------------------------
(* Properties of the detail view (specification SpecDetail) *)

\* the request of the current detail context
LiveFor(r) ==
    /\ r.isMounted
    /\ modal.mounted
    /\ r.app = modal.app.id
    /\ r.lang = language

\* C13: when the entry shown by a mounted view is replaced by an entry with
\* another id, the chain restarts at the new entry's iconUrl with the
\* placeholder flag cleared.
C13_ResetOnIdentityChange ==
    [][ /\ (card.mounted /\ card'.mounted /\ card'.app.id # card.app.id) =>
               (card'.imgSrc = card'.app.iconUrl /\ ~card'.showPlaceholder)
        /\ (modal.mounted /\ modal'.mounted /\ modal'.app.id # modal.app.id) =>
               (modal'.imgSrc = modal'.app.iconUrl /\ ~modal'.showPlaceholder)
      ]_vars

\* C14: a response is applied only in the context that requested it: what
\* the detail view shows (review or error) belongs to the entry and language
\* it displays, and the settling of a request whose context was torn down
\* changes neither analysis, nor error, nor loading.
C14_StaleResponseDiscarded ==
    [][ /\ analysis.present =>
               (modal.mounted /\ analysis.app = modal.app.id
                    /\ analysis.lang = language)
        /\ error # NoError => (modal.mounted /\ error = ErrorText(language))
        /\ \A r \in inflight :
               (~r.isMounted /\ r \notin inflight'
                    /\ lastOp' \in {"reviewResolved", "reviewRejected"})
                   => UNCHANGED <<analysis, error, loading>>
      ]_vars

\* the response for a replaced entry arrived and was dropped while the
\* request of the entry on display is still pending
C14_Witness ==
    /\ lastOp = "reviewResolved"
    /\ modal.mounted
    /\ loading
    /\ ~analysis.present
    /\ \E r \in inflight : LiveFor(r)

\* the detail view starts to show an (entry, language) pair
Activated ==
    /\ modal'.mounted
    /\ \/ ~modal.mounted
       \/ modal'.app.id # modal.app.id
       \/ language' # language

\* C15: a step that activates the detail view for an (entry, language) pair
\* issues exactly one request, which is the only live one and is for that
\* pair, whatever was loaded before; every other step, the settling of a
\* failed request included, issues none.
C15_OneRequestPerActivation ==
    [][ /\ Activated =>
               /\ started' = 1
               /\ \E r \in inflight' :
                      /\ r = [app |-> modal'.app.id, lang |-> language',
                              isMounted |-> TRUE]
                      /\ \A q \in inflight' : q.isMounted => q = r
        /\ ~Activated => started' = 0
      ]_vars

\* the detail view was opened for an entry and exactly one request, for
\* that entry in the display language, is pending
C15_Witness ==
    /\ lastOp = "modalOpen"
    /\ started = 1
    /\ modal.app = Moodle
    /\ loading
    /\ inflight = {[app |-> "moodle", lang |-> "es", isMounted |-> TRUE]}

\* C16 as stated: a language switch while a request is in flight issues no
\* request and keeps the request in flight live.
C16_LanguageSwitchKeepsRequest ==
    [][ (language' # language /\ modal.mounted /\ loading) =>
            /\ started' = 0
            /\ \A r \in inflight : r.isMounted => r \in inflight'
      ]_vars

\* C16 as amended: a language switch leaves the catalog and the filter
\* state as they are; with the detail view closed it issues no request, with
\* the detail view open it turns the live request stale and issues one
\* request for the displayed entry in the new language.
C16_LanguageSwitchRestartsReview ==
    [][ language' # language =>
            /\ UNCHANGED <<catalog, searchTerm, selectedCategories,
                           selectedStages, selectedRoles, selectedPrices,
                           filteredApps>>
            /\ ~modal.mounted => (started' = 0 /\ inflight' = inflight)
            /\ modal.mounted =>
                   /\ started' = 1
                   /\ loading' /\ ~analysis'.present /\ error' = NoError
                   /\ \A r \in inflight :
                          r.isMounted =>
                              [r EXCEPT !.isMounted = FALSE] \in inflight'
                   /\ [app |-> modal.app.id, lang |-> language',
                       isMounted |-> TRUE] \in inflight'
      ]_vars

\* the language was switched while the request of the open detail view was
\* in flight
C16_Witness ==
    /\ lastOp = "toggleLanguage"
    /\ language = "eu"
    /\ modal.mounted
    /\ started = 1
    /\ [app |-> modal.app.id, lang |-> "es", isMounted |-> FALSE] \in inflight
    /\ [app |-> modal.app.id, lang |-> "eu", isMounted |-> TRUE] \in inflight

\* C17: the detail view is pending only while the request of its current
\* context is unsettled, and the settling of that request ends the pending
\* state, with an error set when the promise was rejected.
C17_NoPendingAfterSettle ==
    [][ /\ loading => \E r \in inflight : LiveFor(r)
        /\ \A r \in inflight :
               (r.isMounted /\ r \notin inflight'
                    /\ lastOp' \in {"reviewResolved", "reviewRejected"}) =>
                   /\ ~loading'
                   /\ lastOp' = "reviewRejected" => error' # NoError
      ]_vars

\* the request of the open detail view was rejected
C17_Witness ==
    /\ lastOp = "reviewRejected"
    /\ modal.mounted
    /\ ~loading
    /\ error = ErrorText(language)
    /\ inflight = {}

\* C18: only a response with every AIReview field is stored as a review.
C18_IncompleteReviewRejected ==
    analysis.present => analysis.fields = AIReviewFields

\* C19: a step of an image chain or of the review pipeline leaves the
\* query, the selections and the filtered list unchanged, and leaves the
\* card unchanged unless it is the card's own error event.
C19_PipelineFrame ==
    [][ (lastOp' \in {"cardImgError", "modalImgError", "modalOpen",
                      "modalReplace", "reviewResolved", "reviewRejected"}) =>
            /\ UNCHANGED <<searchTerm, selectedCategories, selectedStages,
                           selectedRoles, selectedPrices, filteredApps>>
            /\ lastOp' # "cardImgError" => card' = card
      ]_vars

\* C20: a saved report has the review sections exactly when a review is
\* present; without a review it has the entry lines and the note and
\* nothing else; and an export fails only when the exporter itself throws.
C20_ReportFollowsReview ==
    lastExport # NoExport =>
        /\ lastExport.outcome = "failed" => lastExport.exporterThrew
        /\ lastExport.outcome = "saved" =>
               /\ (Range(ReviewLines) \subseteq Range(lastExport.doc))
                      <=> analysis.present
               /\ "basicNote" \in Range(lastExport.doc) <=> ~analysis.present
               /\ ~analysis.present =>
                      Range(lastExport.doc)
                          = Range(BaseLines) \cup {"basicNote"}

\* a report was saved after the review had failed
C20_Witness ==
    /\ lastOp = "handleDownloadPDF"
    /\ lastExport.outcome = "saved"
    /\ ~analysis.present
    /\ error # NoError
    /\ "basicNote" \in Range(lastExport.doc)

----------------------------------------------------------------------------
(* Properties of the export (specifications SpecText and SpecDetail) *)

\* C21 as stated: a sanitized text has the length of its input; quotes and
\* dashes become ' " and -, every other code unit outside the range becomes
\* a space, the rest is kept, and the result lies in the range.
C21_OthersBecomeSpaces ==
    \A i \in DOMAIN drawn :
        drawn[i].sanitized =>
            /\ Len(drawn[i].text) = Len(drawn[i].raw)
            /\ \A j \in DOMAIN drawn[i].raw :
                   /\ drawn[i].text[j] \notin OutOfRange
                   /\ drawn[i].text[j] =
                          (IF drawn[i].raw[j] \in SingleQuotes THEN "'"
                           ELSE IF drawn[i].raw[j] \in DoubleQuotes THEN "\""
                           ELSE IF drawn[i].raw[j] \in Dashes THEN "-"
                           ELSE IF drawn[i].raw[j] \in OutOfRange THEN " "
                           ELSE drawn[i].raw[j])

\* C21 as amended: as above, with the bullet U+2022 mapped to - like the
\* dashes; counted in UTF-16 code units, nothing is deleted.
C21_CleanTextMapping ==
    \A i \in DOMAIN drawn :
        drawn[i].sanitized =>
            /\ Len(drawn[i].text) = Len(drawn[i].raw)
            /\ \A j \in DOMAIN drawn[i].raw :
                   /\ drawn[i].text[j] \notin OutOfRange
                   /\ drawn[i].text[j] =
                          (IF drawn[i].raw[j] \in SingleQuotes THEN "'"
                           ELSE IF drawn[i].raw[j] \in DoubleQuotes THEN "\""
                           ELSE IF drawn[i].raw[j] \in Dashes \cup {Bullet}
                                THEN "-"
                           ELSE IF drawn[i].raw[j] \in OutOfRange THEN " "
                           ELSE drawn[i].raw[j])

\* a text with a typographic quote, a bullet and half of a surrogate pair
\* was sanitized
C21_Witness ==
    /\ lastOp = "cleanText"
    /\ Len(drawn) = 1
    /\ drawn[1].raw = <<"U+201C", "U+2022", "U+D83D">>
    /\ drawn[1].text = <<"\"", "-", " ">>

\* C22: every text handed to the exporter during an export went through
\* cleanText and holds no code unit outside the range, the date line of the
\* header included.
C22_EveryTextSanitized ==
    lastOp = "handleDownloadPDF" =>
        \A i \in DOMAIN drawn :
            /\ drawn[i].sanitized
            /\ \A j \in DOMAIN drawn[i].text :
                   drawn[i].text[j] \notin OutOfRange

\* the close button and the download button of the detail view respond
DetailUsable == ~crashed /\ modal.mounted /\ ~loading

\* C23: a failed export raises the alert and leaves the review state, the
\* image chains, the selected entry and the filter state as they were; the
\* detail view stays open, and closing it and exporting again stay possible.
C23_FailedExportChangesNothing ==
    [][ (lastOp' = "handleDownloadPDF" /\ lastExport'.outcome = "failed") =>
            /\ UNCHANGED <<filterVars, card, modal, analysis, error,
                           loading, inflight, crashed>>
            /\ lastExport'.alert
            /\ DetailUsable'
      ]_vars

\* an export failed in the exporter while a review was on display
C23_Witness ==
    /\ lastOp = "handleDownloadPDF"
    /\ lastExport.outcome = "failed"
    /\ lastExport.exporterThrew
    /\ lastExport.alert
    /\ modal.mounted
    /\ analysis.present

\* C24: a review and an error are never both present, and while the detail
\* view is pending neither is present.
C24_ReviewErrorExclusive ==
    /\ ~(analysis.present /\ error # NoError)
    /\ loading => (~analysis.present /\ error = NoError)

\* a request was started by replacing the entry and the view is pending
\* with nothing left over
C24_Witness ==
    /\ lastOp = "modalReplace"
    /\ started = 1
    /\ loading
    /\ ~analysis.present
    /\ error = NoError
    /\ Cardinality(inflight) = 2

----------------------------------------------------------------------------
(* Properties of the selections and of the age display *)

\* no value occurs twice in the list
NoDuplicates(list) ==
    \A i, j \in DOMAIN list : list[i] = list[j] => i = j

\* the step toggles one option of the list or resets it
ToggledOrReset(list, next) ==
    \/ next = list
    \/ next = << >>
    \/ \E v \in Range(next) \ Range(list) : next = Append(list, v)
    \/ \E v \in Range(list) :
           /\ Range(next) = Range(list) \ {v}
           /\ Len(next) = Len(list) - 1

\* toggling value v twice in the list gives back the same set of values
TwiceRestores(list, choices) ==
    \A v \in choices :
        Range(toggleOption(toggleOption(list, v), v)) = Range(list)

\* C25: no selection list holds a value twice, so the count of active
\* filters is the number of distinct selected values; a toggle appends an
\* unselected value once or removes a selected one, and toggling the same
\* value twice restores the set of selected values.
C25_NoDuplicateSelections ==
    [][ /\ NoDuplicates(selectedCategories) /\ NoDuplicates(selectedStages)
        /\ NoDuplicates(selectedRoles) /\ NoDuplicates(selectedPrices)
        /\ activeFilterCount =
               Cardinality(Range(selectedCategories))
                   + Cardinality(Range(selectedStages))
                   + Cardinality(Range(selectedRoles))
                   + Cardinality(Range(selectedPrices))
        /\ ToggledOrReset(selectedCategories, selectedCategories')
        /\ ToggledOrReset(selectedStages, selectedStages')
        /\ ToggledOrReset(selectedRoles, selectedRoles')
        /\ ToggledOrReset(selectedPrices, selectedPrices')
        /\ TwiceRestores(selectedCategories, CategoryChoices)
        /\ TwiceRestores(selectedStages, StageChoices)
        /\ TwiceRestores(selectedRoles, RoleChoices)
        /\ TwiceRestores(selectedPrices, PriceChoices)
      ]_vars

\* an option was toggled off after two options of its list had been
\* selected, and another list holds two values
C25_Witness ==
    /\ lastOp = "toggleOption"
    /\ Len(selectedStages) = 1
    /\ Len(selectedRoles) = 2
    /\ Len(selectedCategories) = 2
    /\ activeFilterCount = 5

\* C26: the detail view and the report show the declared age exactly when
\* the card shows the age badge, and show '-' only when minAge is absent.
C26_AgeShownAlike ==
    modal.mounted =>
        /\ CardShowsAge(modal.app.minAge)
               <=> ModalAgeText(modal.app.minAge) # <<"-">>
        /\ ModalAgeText(modal.app.minAge) = <<"-">>
               => modal.app.minAge = NoAge
        /\ \A i \in DOMAIN drawn :
               drawn[i].line = "minAge" =>
                   (CardShowsAge(modal.app.minAge)
                        <=> drawn[i].text[Len(drawn[i].text)] = "+")

====
